---------------------------- MODULE Spec2Model ----------------------------
(***************************************************************************)
(* A model of the neighbor routing extension of the IBR-DTN daemon         *)
(* (daemon/src/routing/NeighborRoutingExtension.cpp): the worker thread    *)
(* run(), the routing decision shouldRouteTo(), the event adapters         *)
(* eventDataChanged() / eventBundleQueued() and the lifecycle calls        *)
(* componentUp() / componentDown().                                        *)
(*                                                                         *)
(* Collaborators whose code is not part of the file (the task queue, the   *)
(* thread base class, the neighbor database, the storage seeker, the       *)
(* connection manager, the policy evaluator, transferTo) are modelled by   *)
(* their contract; their answers are inputs drawn with \E.                 *)
(***************************************************************************)
EXTENDS Naturals, Sequences, FiniteSets

VARIABLES
    taskqueue,   \* _taskqueue: the tasks waiting, oldest first
    aborted,     \* _taskqueue's abort state
    wpc,         \* position of the worker thread inside run()
    cur,         \* Task *t: the task polled by the worker (NoTask if none)
    list,        \* RoutingResult list: <<bundle id, protocol>> in put() order
    iter,        \* position of the transfer loop's iterator in list
    entry,       \* NeighborEntry the worker looked up in its critical section
    plist,       \* protocol_list of the current task
    cursor,      \* how far the storage seeker has walked through the storage
    ret,         \* ProcessBundleTask: the pair returned by shouldRouteTo
    lock,        \* owner of the neighbor database mutex
    lifePc,      \* position of the thread that calls componentUp/componentDown
    prod,        \* per producer thread: its call of eventBundleQueued
    pushed,      \* number of ids handed out so far (the id of the last task)
    started,     \* history: ids of the tasks poll() returned, in order
    xfers,       \* history: transferTo calls of the current task and their results
    fail,        \* the exception in flight ("none" if none)
    looked,      \* history: what db.get found for the current task
    accepted,    \* history: pairs shouldRouteTo accepted in the current task
    dec          \* one evaluation of shouldRouteTo on drawn inputs

vars == <<taskqueue, aborted, wpc, cur, list, iter, entry, plist, cursor, ret,
          lock, lifePc, prod, pushed, started, xfers, fail, looked, accepted,
          dec>>

---------------------------------------------------------------------------
(* Bounds of the model *)

\* ids handed out in one behaviour: one per task pushed
MaxTasks == 2
\* largest number of free transfer slots an entry is read with
MaxSlots == 2
\* largest hop count of a bundle handed to shouldRouteTo
MaxHop == 2
\* longest protocol list handed to shouldRouteTo
MaxPlist == 3

---------------------------------------------------------------------------
(* Values *)

\* An EID is <<node, application>>; sameHost compares the node part only.
Local == <<0, 0>>
N1 == <<1, 0>>
N2 == <<2, 0>>
Neighbors == {N1, N2}
EIDs == {Local, N1, N2, <<1, 1>>, <<3, 0>>}

sameHost(a, b) == a[1] = b[1]

CONN_UNDEFINED == "CONN_UNDEFINED"
Protocols == {"TCP", "UDP", "LOWPAN"}
Actions == {"ACCEPT", "REJECT"}

\* The bundles the storage and the events of the worker model hand out.
BundleIds == {"b1", "b2", "b3", "b4"}
Meta(b) ==
    CASE b = "b1" -> [id |-> "b1", hopcount |-> 5, singleton |-> TRUE,  destination |-> <<1, 1>>]
      [] b = "b2" -> [id |-> "b2", hopcount |-> 0, singleton |-> TRUE,  destination |-> N1]
      [] b = "b3" -> [id |-> "b3", hopcount |-> 5, singleton |-> FALSE, destination |-> N1]
      [] b = "b4" -> [id |-> "b4", hopcount |-> 1, singleton |-> TRUE,  destination |-> N1]
\* storage order of the seeker
Rank(b) == CASE b = "b1" -> 1 [] b = "b2" -> 2 [] b = "b3" -> 3 [] b = "b4" -> 4

NoTask == [kind |-> "none"]
NoEntry == [eid |-> Local, free |-> 0, known |-> {}]
NoRet == <<FALSE, CONN_UNDEFINED>>

SearchNextBundleTask(i, e) == [kind |-> "search", id |-> i, eid |-> e]
ProcessBundleTask(i, m, o, n) ==
    [kind |-> "process", id |-> i, bundle |-> m, origin |-> o, nexthop |-> n]

---------------------------------------------------------------------------
(* The routing decision *)

\* firstAccepted with the loop running on after an ACCEPT: the last accepted
\* protocol wins
RECURSIVE firstAcceptedLast(_, _)
firstAcceptedLast(pl, ev) ==
    IF pl = <<>> THEN <<FALSE, CONN_UNDEFINED>>
    ELSE LET later == firstAcceptedLast(Tail(pl), ev)
         IN  IF later[1] THEN later
             ELSE IF ev[Head(pl)] = "ACCEPT" THEN <<TRUE, Head(pl)>>
             ELSE <<FALSE, CONN_UNDEFINED>>

\* The first protocol of pl the evaluator accepts, if any.
RECURSIVE firstAccepted(_, _)
firstAccepted(pl, ev) ==
    IF pl = <<>> THEN <<FALSE, CONN_UNDEFINED>>
    ELSE IF ev[Head(pl)] = "ACCEPT" THEN <<TRUE, Head(pl)>>
    ELSE firstAccepted(Tail(pl), ev)

\* n.has(meta)
has(n, meta) == meta.id \in n.known

\* shouldRouteTo without the test n.has(meta)
shouldRouteToNoHas(meta, n, pl, ev) ==
    IF meta.hopcount = 0 THEN <<FALSE, CONN_UNDEFINED>>
    ELSE IF meta.singleton
         THEN IF sameHost(meta.destination, Local) THEN <<FALSE, CONN_UNDEFINED>>
              ELSE IF ~sameHost(meta.destination, n.eid) THEN <<FALSE, CONN_UNDEFINED>>
              ELSE firstAccepted(pl, ev)
         ELSE <<FALSE, CONN_UNDEFINED>>

\* meta: the bundle, n: the neighbor entry, pl: the protocol list,
\* ev: the answers of BundleCore::evaluate for this bundle and peer, per protocol
shouldRouteTo(meta, n, pl, ev) ==
    IF meta.hopcount = 0 THEN <<FALSE, CONN_UNDEFINED>>
    ELSE IF meta.singleton
         THEN IF sameHost(meta.destination, Local) THEN <<FALSE, CONN_UNDEFINED>>
              ELSE IF ~sameHost(meta.destination, n.eid) THEN <<FALSE, CONN_UNDEFINED>>
              ELSE IF has(n, meta) THEN <<FALSE, CONN_UNDEFINED>>
              ELSE firstAccepted(pl, ev)
         ELSE <<FALSE, CONN_UNDEFINED>>

---------------------------------------------------------------------------
(* Collaborators: the values their calls can return *)

\* BundleCore::evaluate: one answer per protocol, for a given bundle and peer
Evaluations == [Protocols -> Actions]

\* ConnectionManager::getSupportedProtocols
SupportedProtocols == {<<>>, <<"TCP">>, <<"TCP", "UDP">>, <<"UDP", "TCP">>}

\* a get() that never creates an entry
dbGetNoCreate(existed, create) == existed

\* NeighborDatabase::get(eid, create): whether an entry is returned, given
\* whether the database had one
dbGet(existed, create) == existed \/ create

\* the entry of e as the other threads left it (has() is drawn per bundle)
EntriesOf(e) == {[eid |-> e, free |-> f, known |-> {}] : f \in 0..MaxSlots}

\* NeighborEntry::isTransferThresholdReached: never with no free slot
isTransferThresholdReached(n) == IF n.free = 0 THEN {FALSE} ELSE BOOLEAN

\* the threshold check with its condition dropped: the search never aborts
thresholdAbortsNever(reached) == FALSE

\* if (!entry.isTransferThresholdReached()) throw NoMoreTransfersAvailable
thresholdAborts(reached) == ~reached

\* a limit() that is one above the free slots
limitPlusOne(n) == n.free + 1

\* BundleFilter::limit
limit(n) == n.free

\* what a transferTo call can end with
TransferOutcomes ==
    {"ok", "AlreadyInTransitException", "NoMoreTransfersAvailable",
     "EntryNotFoundException", "NodeNotAvailableException", "Other"}

\* the transfer loop without a catch of its own
LoopCatchesNothing(ex) == FALSE

\* a catch in the transfer loop that swallows every exception
LoopCatchesAll(ex) == TRUE

\* the catch inside the transfer loop
LoopCatches(ex) == ex = "AlreadyInTransitException"

\* the catch chain of the first try block without its NodeNotAvailable clause
SearchCatchesNoNodeClause(ex) ==
    ex \in {"NoMoreTransfersAvailable", "EntryNotFoundException",
            "NoBundleFoundException", "bad_cast"}

\* the catch chain of the SearchNextBundleTask block
SearchCatches(ex) ==
    ex \in {"NoMoreTransfersAvailable", "EntryNotFoundException",
            "NodeNotAvailableException", "NoBundleFoundException", "bad_cast"}

\* the catch chain of the ProcessBundleTask block
ProcessCatches(ex) ==
    ex \in {"AlreadyInTransitException", "NoMoreTransfersAvailable",
            "EntryNotFoundException", "NodeNotAvailableException",
            "NoRouteKnownException", "bad_cast"}

\* the outer catch without its return: the loop goes on
OuterCatchContinues == "poll"

\* the outer catch (std::exception): run() returns
OuterCatch == "finalized"

\* the guard declared outside the block: its scope covers the transfer loop
ReleaseSearchGuardLate(l) == l

\* the MutexLock guard of the search block leaves scope
ReleaseSearchGuard(l) == IF l = "worker" THEN "free" ELSE l

\* a guard of the second try block that is not released at the scope's end
ReleaseProcessGuardLate(l) == l

\* the MutexLock guard of the process block leaves scope
ReleaseProcessGuard(l) == IF l = "worker" THEN "free" ELSE l

\* Queue::poll on a queue that is not aborted: the oldest task
QueueFront(q) == Head(q)
QueueRest(q) == Tail(q)

\* Queue::push
QueuePush(q, t) == Append(q, t)

\* Queue::reset: the abort state is cleared and the backlog dropped
QueueReset(q) == <<>>

---------------------------------------------------------------------------
(* Initial state: the extension is constructed, the thread not started *)

IdleProducer == [pc |-> "idle", peer |-> Local, meta |-> "b1", nl |-> {},
                 todo |-> <<>>, out |-> <<>>]
Producers == {"p1"}
DecIdle == [stage |-> "off"]
NoLookup == <<>>

Init ==
    /\ taskqueue = <<>>
    /\ aborted = FALSE
    /\ wpc = "created"
    /\ cur = NoTask
    /\ list = <<>>
    /\ iter = 1
    /\ entry = NoEntry
    /\ plist = <<>>
    /\ cursor = 0
    /\ ret = NoRet
    /\ lock = "free"
    /\ lifePc = "idle"
    /\ prod = [p \in Producers |-> IdleProducer]
    /\ pushed = 0
    /\ started = <<>>
    /\ xfers = <<>>
    /\ fail = "none"
    /\ looked = NoLookup
    /\ accepted = {}
    /\ dec = DecIdle

---------------------------------------------------------------------------
(* The worker thread: NeighborRoutingExtension::run *)

workerVars == <<wpc, cur, list, iter, entry, plist, cursor, ret, started,
                xfers, fail, looked, accepted>>
otherVars == <<taskqueue, aborted, lock, lifePc, prod, pushed, dec>>

\* the outer catch: the exception is logged and run() returns; the task and
\* the locals of run() are destroyed
Terminate ==
    /\ wpc' = OuterCatch
    /\ fail' = "none"
    /\ cur' = NoTask
    /\ list' = <<>>
    /\ iter' = 1
    /\ entry' = NoEntry
    /\ plist' = <<>>
    /\ cursor' = 0
    /\ ret' = NoRet
    /\ xfers' = <<>>
    /\ looked' = NoLookup
    /\ accepted' = {}

\* the task is done: auto_ptr deletes it, yield(), next iteration
NextIteration ==
    /\ wpc' = "poll"
    /\ fail' = "none"
    /\ cur' = NoTask
    /\ iter' = 1
    /\ entry' = NoEntry
    /\ plist' = <<>>
    /\ cursor' = 0
    /\ ret' = NoRet
    /\ xfers' = <<>>
    /\ looked' = NoLookup
    /\ accepted' = {}
    /\ UNCHANGED list

\* exception ex is thrown inside a try block; at is the position that names
\* the block. The scopes of the block are left.
Throw(ex, at) ==
    /\ wpc' = at
    /\ fail' = ex
    /\ entry' = NoEntry
    /\ plist' = <<>>
    /\ cursor' = 0

\* a poll() whose task stays in the queue
PollLeavesTask ==
    /\ wpc = "poll"
    /\ ~aborted
    /\ taskqueue # <<>>
    /\ cur' = QueueFront(taskqueue)
    /\ started' = Append(started, QueueFront(taskqueue).id)
    /\ wpc' = "search"
    /\ UNCHANGED <<taskqueue, aborted, list, iter, entry, plist, cursor, ret,
                   lock, lifePc, prod, pushed, xfers, fail, looked, accepted,
                   dec>>

\* poll() returns the oldest task
Poll ==
    /\ wpc = "poll"
    /\ ~aborted
    /\ taskqueue # <<>>
    /\ cur' = QueueFront(taskqueue)
    /\ taskqueue' = QueueRest(taskqueue)
    /\ started' = Append(started, QueueFront(taskqueue).id)
    /\ wpc' = "search"
    /\ UNCHANGED <<aborted, list, iter, entry, plist, cursor, ret, lock,
                   lifePc, prod, pushed, xfers, fail, looked, accepted, dec>>

\* poll() on an aborted queue throws QueueUnblockedException: the outer catch
PollAborted ==
    /\ wpc = "poll"
    /\ aborted
    /\ Terminate
    /\ UNCHANGED <<taskqueue, aborted, lock, lifePc, prod, pushed, started, dec>>

\* a first try block that takes the lock without list.clear()
SearchEnterNoClear ==
    /\ wpc = "search"
    /\ cur.kind = "search"
    /\ lock = "free"
    /\ lock' = "worker"
    /\ wpc' = "s_locked"
    /\ UNCHANGED <<taskqueue, aborted, cur, list, iter, entry, plist, cursor,
                   ret, lifePc, prod, pushed, started, xfers, fail, looked,
                   accepted, dec>>

\* first try block, the task is a SearchNextBundleTask: list.clear(), lock db
SearchEnter ==
    /\ wpc = "search"
    /\ cur.kind = "search"
    /\ lock = "free"
    /\ list' = <<>>
    /\ lock' = "worker"
    /\ wpc' = "s_locked"
    /\ UNCHANGED <<taskqueue, aborted, cur, iter, entry, plist, cursor, ret,
                   lifePc, prod, pushed, started, xfers, fail, looked,
                   accepted, dec>>

\* first try block, the task is no SearchNextBundleTask: bad_cast
SearchBadCast ==
    /\ wpc = "search"
    /\ cur.kind # "search"
    /\ Throw("bad_cast", "s_throw")
    /\ UNCHANGED <<taskqueue, aborted, cur, list, iter, ret, lock, lifePc,
                   prod, pushed, started, xfers, looked, accepted, dec>>

\* db.get(task.eid, true), the threshold check, getSupportedProtocols
SearchLookup ==
    /\ wpc = "s_locked"
    /\ \E existed \in BOOLEAN, n \in EntriesOf(cur.eid), reached \in BOOLEAN :
         /\ reached \in isTransferThresholdReached(n)
         /\ IF ~dbGet(existed, TRUE)
            THEN /\ Throw("EntryNotFoundException", "s_throw")
                 /\ looked' = <<[existed |-> existed, found |-> FALSE, free |-> 0]>>
                 /\ lock' = ReleaseSearchGuard(lock)
            ELSE /\ looked' = <<[existed |-> existed, found |-> TRUE, free |-> n.free]>>
                 /\ IF thresholdAborts(reached)
                    THEN /\ Throw("NoMoreTransfersAvailable", "s_throw")
                         /\ lock' = ReleaseSearchGuard(lock)
                    ELSE /\ \E pl \in SupportedProtocols : plist' = pl
                         /\ entry' = n
                         /\ cursor' = 0
                         /\ wpc' = "s_query"
                         /\ UNCHANGED <<fail, lock>>
    /\ UNCHANGED <<taskqueue, aborted, cur, list, iter, ret, lifePc, prod,
                   pushed, started, xfers, accepted, dec>>

\* getSeeker().get(filter, list): the seeker shows the next stored bundle to
\* BundleFilter::addIfSelected; known: whether the entry has the bundle
QueryConsider ==
    /\ wpc = "s_query"
    /\ Len(list) < limit(entry)
    /\ \E b \in BundleIds, known \in BOOLEAN, ev \in Evaluations :
         /\ Rank(b) > cursor
         /\ LET n == [entry EXCEPT !.known = IF known THEN {b} ELSE {}]
                r == shouldRouteTo(Meta(b), n, plist, ev)
            IN  /\ list' = IF r[1] THEN Append(list, <<b, r[2]>>) ELSE list
                /\ accepted' = IF r[1] THEN accepted \cup {<<b, r[2]>>} ELSE accepted
         /\ cursor' = Rank(b)
    /\ UNCHANGED <<taskqueue, aborted, wpc, cur, iter, entry, plist, ret, lock,
                   lifePc, prod, pushed, started, xfers, fail, looked, dec>>

\* the seeker returns: the limit is reached or the storage has no more bundles
QueryReturn ==
    /\ wpc = "s_query"
    /\ lock' = ReleaseSearchGuard(lock)
    /\ wpc' = "s_loop"
    /\ iter' = 1
    /\ entry' = NoEntry
    /\ plist' = <<>>
    /\ cursor' = 0
    /\ UNCHANGED <<taskqueue, aborted, cur, list, ret, lifePc, prod, pushed,
                   started, xfers, fail, looked, accepted, dec>>

\* the seeker throws: NoBundleFoundException when nothing was selected, or an
\* exception of the storage that no catch chain names
QueryThrows ==
    /\ wpc = "s_query"
    /\ lock' = ReleaseSearchGuard(lock)
    /\ \/ list = <<>> /\ Throw("NoBundleFoundException", "s_throw")
       \/ Throw("BundleSelectorException", "s_throw")
    /\ UNCHANGED <<taskqueue, aborted, cur, list, iter, ret, lifePc, prod,
                   pushed, started, xfers, looked, accepted, dec>>

\* the transfer loop calls transferTo for the entry at iter
SearchTransferCall ==
    /\ wpc = "s_loop"
    /\ iter <= Len(list)
    /\ xfers' = Append(xfers, [eid |-> cur.eid, bundle |-> list[iter][1],
                               protocol |-> list[iter][2], result |-> "running"])
    /\ wpc' = "s_xfer"
    /\ UNCHANGED <<taskqueue, aborted, cur, list, iter, entry, plist, cursor,
                   ret, lock, lifePc, prod, pushed, started, fail, looked,
                   accepted, dec>>

\* transferTo returns or throws
SearchTransferReturn ==
    /\ wpc = "s_xfer"
    /\ \E out \in TransferOutcomes :
         /\ xfers' = [xfers EXCEPT ![Len(xfers)].result = out]
         /\ IF out = "ok"
            THEN /\ iter' = iter + 1
                 /\ wpc' = "s_loop"
                 /\ UNCHANGED <<fail, entry, plist, cursor>>
            ELSE /\ Throw(out, "x_throw")
                 /\ UNCHANGED iter
    /\ UNCHANGED <<taskqueue, aborted, cur, list, ret, lock, lifePc, prod,
                   pushed, started, looked, accepted, dec>>

\* the transfer loop is through: on to the second try block
SearchLoopEnd ==
    /\ wpc = "s_loop"
    /\ iter > Len(list)
    /\ wpc' = "process"
    /\ iter' = 1
    /\ UNCHANGED <<taskqueue, aborted, cur, list, entry, plist, cursor, ret,
                   lock, lifePc, prod, pushed, started, xfers, fail, looked,
                   accepted, dec>>

\* an exception of transferTo in the loop: the catch in the loop, then the
\* catch chain of the first try block, then the outer catch
LoopCatch ==
    /\ wpc = "x_throw"
    /\ IF LoopCatches(fail)
       THEN /\ wpc' = "s_loop"
            /\ iter' = iter + 1
            /\ fail' = "none"
            /\ UNCHANGED <<cur, list, entry, plist, cursor, ret, xfers, looked,
                           accepted>>
       ELSE IF SearchCatches(fail)
       THEN /\ wpc' = "process"
            /\ iter' = 1
            /\ fail' = "none"
            /\ UNCHANGED <<cur, list, entry, plist, cursor, ret, xfers, looked,
                           accepted>>
       ELSE Terminate
    /\ UNCHANGED <<taskqueue, aborted, lock, lifePc, prod, pushed, started, dec>>

\* an exception leaves the first try block: its catch chain and on to the
\* second try block, else the outer catch
SearchCatch ==
    /\ wpc = "s_throw"
    /\ IF SearchCatches(fail)
       THEN /\ wpc' = "process"
            /\ iter' = 1
            /\ fail' = "none"
            /\ UNCHANGED <<cur, list, entry, plist, cursor, ret, xfers, looked,
                           accepted>>
       ELSE Terminate
    /\ UNCHANGED <<taskqueue, aborted, lock, lifePc, prod, pushed, started, dec>>

\* second try block, the task is no ProcessBundleTask: bad_cast
ProcessBadCast ==
    /\ wpc = "process"
    /\ cur.kind # "process"
    /\ Throw("bad_cast", "p_throw")
    /\ UNCHANGED <<taskqueue, aborted, cur, list, iter, ret, lock, lifePc,
                   prod, pushed, started, xfers, looked, accepted, dec>>

\* second try block, the task is a ProcessBundleTask: getSupportedProtocols,
\* then lock db
ProcessEnter ==
    /\ wpc = "process"
    /\ cur.kind = "process"
    /\ lock = "free"
    /\ \E pl \in SupportedProtocols : plist' = pl
    /\ lock' = "worker"
    /\ wpc' = "p_locked"
    /\ UNCHANGED <<taskqueue, aborted, cur, list, iter, entry, cursor, ret,
                   lifePc, prod, pushed, started, xfers, fail, looked,
                   accepted, dec>>

\* db.get(task.nexthop, true) and shouldRouteTo; known: whether the entry has
\* the bundle. Rejected: NoRouteKnownException leaves the guard's scope.
ProcessDecide ==
    /\ wpc = "p_locked"
    /\ \E existed \in BOOLEAN, e \in EntriesOf(cur.nexthop), known \in BOOLEAN,
          ev \in Evaluations :
         IF ~dbGet(existed, TRUE)
         THEN /\ Throw("EntryNotFoundException", "p_throw")
              /\ looked' = <<[existed |-> existed, found |-> FALSE, free |-> 0]>>
              /\ lock' = ReleaseProcessGuard(lock)
              /\ UNCHANGED <<ret, accepted>>
         ELSE LET n == [e EXCEPT !.known = IF known THEN {cur.bundle} ELSE {}]
                  r == shouldRouteTo(Meta(cur.bundle), n, plist, ev)
              IN  /\ looked' = <<[existed |-> existed, found |-> TRUE, free |-> n.free]>>
                  /\ ret' = r
                  /\ accepted' = IF r[1] THEN {<<cur.bundle, r[2]>>} ELSE {}
                  /\ IF ~r[1]
                     THEN /\ Throw("NoRouteKnownException", "p_throw")
                          /\ lock' = ReleaseProcessGuard(lock)
                     ELSE /\ wpc' = "p_decided"
                          /\ plist' = <<>>
                          /\ UNCHANGED <<entry, cursor, fail, lock>>
    /\ UNCHANGED <<taskqueue, aborted, cur, list, iter, lifePc, prod, pushed,
                   started, xfers, dec>>

\* a transferTo of the second try block that goes to the task's origin
ProcessTransferCallToOrigin ==
    /\ wpc = "p_decided"
    /\ lock' = ReleaseProcessGuard(lock)
    /\ xfers' = Append(xfers, [eid |-> cur.origin, bundle |-> cur.bundle,
                               protocol |-> ret[2], result |-> "running"])
    /\ wpc' = "p_xfer"
    /\ UNCHANGED <<taskqueue, aborted, cur, list, iter, entry, plist, cursor,
                   ret, lifePc, prod, pushed, started, fail, looked, accepted,
                   dec>>

\* accepted: the guard's scope ends and transferTo is called
ProcessTransferCall ==
    /\ wpc = "p_decided"
    /\ lock' = ReleaseProcessGuard(lock)
    /\ xfers' = Append(xfers, [eid |-> cur.nexthop, bundle |-> cur.bundle,
                               protocol |-> ret[2], result |-> "running"])
    /\ wpc' = "p_xfer"
    /\ UNCHANGED <<taskqueue, aborted, cur, list, iter, entry, plist, cursor,
                   ret, lifePc, prod, pushed, started, fail, looked, accepted,
                   dec>>

\* transferTo returns or throws
ProcessTransferReturn ==
    /\ wpc = "p_xfer"
    /\ \E out \in TransferOutcomes :
         IF out = "ok"
         THEN NextIteration
         ELSE /\ Throw(out, "p_throw")
              /\ xfers' = [xfers EXCEPT ![Len(xfers)].result = out]
              /\ UNCHANGED <<cur, list, iter, ret, looked, accepted>>
    /\ UNCHANGED <<taskqueue, aborted, lock, lifePc, prod, pushed, started, dec>>

\* an exception leaves the second try block: its catch chain and the next
\* iteration, else the outer catch
ProcessCatch ==
    /\ wpc = "p_throw"
    /\ IF ProcessCatches(fail) THEN NextIteration ELSE Terminate
    /\ UNCHANGED <<taskqueue, aborted, lock, lifePc, prod, pushed, started, dec>>

Worker ==
    \/ Poll
    \/ PollAborted
    \/ SearchEnter
    \/ SearchBadCast
    \/ SearchLookup
    \/ QueryConsider
    \/ QueryReturn
    \/ QueryThrows
    \/ SearchTransferCall
    \/ SearchTransferReturn
    \/ SearchLoopEnd
    \/ LoopCatch
    \/ SearchCatch
    \/ ProcessBadCast
    \/ ProcessEnter
    \/ ProcessDecide
    \/ ProcessTransferCall
    \/ ProcessTransferReturn
    \/ ProcessCatch

---------------------------------------------------------------------------
(* Other threads that use the neighbor database *)

\* another thread locks the neighbor database
OtherLock ==
    /\ lock = "free"
    /\ lock' = "other"
    /\ UNCHANGED <<taskqueue, aborted, lifePc, prod, pushed, dec>>
    /\ UNCHANGED workerVars

\* and unlocks it
OtherUnlock ==
    /\ lock = "other"
    /\ lock' = "free"
    /\ UNCHANGED <<taskqueue, aborted, lifePc, prod, pushed, dec>>
    /\ UNCHANGED workerVars

---------------------------------------------------------------------------
(* The event adapters, called by producer threads *)

\* the tasks a call of eventBundleQueued pushes for the neighbors in todo
RECURSIVE countOthers(_, _)
countOthers(todo, peer) ==
    IF todo = <<>> THEN 0
    ELSE (IF Head(todo) # peer THEN 1 ELSE 0) + countOthers(Tail(todo), peer)

\* ids are handed out in the order of the pushes; a call of eventBundleQueued
\* that pushes no task uses up one id when it returns. The ids the running
\* calls still need:
RECURSIVE pendingOf(_)
pendingOf(ps) ==
    IF ps = {} THEN 0
    ELSE LET p == CHOOSE x \in ps : TRUE
             c == prod[p]
             k == countOthers(c.todo, c.peer)
         IN  (IF c.pc = "loop" /\ c.out = <<>> /\ k = 0 THEN 1 ELSE k)
             + pendingOf(ps \ {p})

Pending == pendingOf(Producers)

\* std::set<Node> iterates in the order of the nodes
RECURSIVE inOrder(_)
inOrder(S) ==
    IF S = {} THEN <<>>
    ELSE LET m == CHOOSE x \in S : \A y \in S : x[1] <= y[1]
         IN  <<m>> \o inOrder(S \ {m})

\* an eventDataChanged that waits until the worker is in poll()
eventDataChangedWhenIdle ==
    /\ wpc = "poll"
    /\ pushed + Pending < MaxTasks
    /\ \E peer \in Neighbors :
         taskqueue' = QueuePush(taskqueue, SearchNextBundleTask(pushed + 1, peer))
    /\ pushed' = pushed + 1
    /\ UNCHANGED <<aborted, lock, lifePc, prod, dec>>
    /\ UNCHANGED workerVars

\* eventDataChanged(peer)
eventDataChanged ==
    /\ pushed + Pending < MaxTasks
    /\ \E peer \in Neighbors :
         taskqueue' = QueuePush(taskqueue, SearchNextBundleTask(pushed + 1, peer))
    /\ pushed' = pushed + 1
    /\ UNCHANGED <<aborted, lock, lifePc, prod, dec>>
    /\ UNCHANGED workerVars

\* the peers and bundles eventBundleQueued is called with
QueuedPeers == {Local, N1}
QueuedBundles == {"b1"}

\* eventBundleQueued(peer, meta): getNeighbors()
eventBundleQueuedBegin(p) ==
    /\ prod[p].pc = "idle"
    /\ \E peer \in QueuedPeers, m \in QueuedBundles, nl \in SUBSET Neighbors :
         /\ pushed + Pending + (IF nl \ {peer} = {} THEN 1 ELSE Cardinality(nl \ {peer}))
               <= MaxTasks
         /\ prod' = [prod EXCEPT ![p] = [pc |-> "loop", peer |-> peer, meta |-> m,
                                         nl |-> nl, todo |-> inOrder(nl),
                                         out |-> <<>>]]
    /\ UNCHANGED <<taskqueue, aborted, lock, lifePc, pushed, dec>>
    /\ UNCHANGED workerVars

\* the loop without the comparison with peer
pushesForAll(n, peer) == TRUE

\* whether the loop pushes a task for neighbor n
pushesFor(n, peer) == n # peer

\* eventBundleQueued: one iteration of the loop over the neighbors
eventBundleQueuedStep(p) ==
    /\ prod[p].pc = "loop"
    /\ prod[p].todo # <<>>
    /\ LET n == Head(prod[p].todo)
           c == prod[p]
       IN  IF pushesFor(n, c.peer)
           THEN /\ taskqueue' = QueuePush(taskqueue,
                                   ProcessBundleTask(pushed + 1, c.meta, c.peer, n))
                /\ pushed' = pushed + 1
                /\ prod' = [prod EXCEPT ![p].todo = Tail(@),
                                        ![p].out = Append(@, <<c.meta, c.peer, n>>)]
           ELSE /\ prod' = [prod EXCEPT ![p].todo = Tail(@)]
                /\ UNCHANGED <<taskqueue, pushed>>
    /\ UNCHANGED <<aborted, lock, lifePc, dec>>
    /\ UNCHANGED workerVars

\* eventBundleQueued returns
eventBundleQueuedReturn(p) ==
    /\ prod[p].pc = "loop"
    /\ prod[p].todo = <<>>
    /\ prod' = [prod EXCEPT ![p] = IdleProducer]
    /\ pushed' = IF prod[p].out = <<>> THEN pushed + 1 ELSE pushed
    /\ UNCHANGED <<taskqueue, aborted, lock, lifePc, dec>>
    /\ UNCHANGED workerVars

---------------------------------------------------------------------------
(* Lifecycle control *)

\* a componentUp that starts the worker without _taskqueue.reset()
componentUpNoReset ==
    /\ lifePc = "idle"
    /\ wpc \in {"created", "finalized"}
    /\ wpc' = "poll"
    /\ UNCHANGED <<taskqueue, aborted, cur, list, iter, entry, plist, cursor,
                   ret, lock, lifePc, prod, pushed, started, xfers, fail,
                   looked, accepted, dec>>

\* componentUp: _taskqueue.reset(), start()
componentUp ==
    /\ lifePc = "idle"
    /\ wpc \in {"created", "finalized"}
    /\ taskqueue' = QueueReset(taskqueue)
    /\ aborted' = FALSE
    /\ wpc' = "poll"
    /\ UNCHANGED <<cur, list, iter, entry, plist, cursor, ret, lock, lifePc,
                   prod, pushed, started, xfers, fail, looked, accepted, dec>>

\* componentUp, start() throws ThreadException: logged, no thread runs
componentUpFailed ==
    /\ lifePc = "idle"
    /\ wpc \in {"created", "finalized"}
    /\ taskqueue' = QueueReset(taskqueue)
    /\ aborted' = FALSE
    /\ UNCHANGED <<lock, lifePc, prod, pushed, dec>>
    /\ UNCHANGED workerVars

\* __cancellation that leaves the queue alone
cancellationNoAbort(a) == a

\* __cancellation: _taskqueue.abort()
cancellation(a) == TRUE

\* componentDown: stop() calls __cancellation
componentDown ==
    /\ lifePc = "idle"
    /\ wpc # "created"
    /\ aborted' = cancellation(aborted)
    /\ lifePc' = "joining"
    /\ UNCHANGED <<taskqueue, lock, prod, pushed, dec>>
    /\ UNCHANGED workerVars

\* componentDown: join() returns once run() has returned
componentDownJoined ==
    /\ lifePc = "joining"
    /\ wpc = "finalized"
    /\ lifePc' = "idle"
    /\ UNCHANGED <<taskqueue, aborted, lock, prod, pushed, dec>>
    /\ UNCHANGED workerVars

---------------------------------------------------------------------------
Next ==
    \/ Worker
    \/ OtherLock
    \/ OtherUnlock
    \/ eventDataChanged
    \/ \E p \in Producers : eventBundleQueuedBegin(p)
    \/ \E p \in Producers : eventBundleQueuedStep(p)
    \/ \E p \in Producers : eventBundleQueuedReturn(p)
    \/ componentUp
    \/ componentUpFailed
    \/ componentDown
    \/ componentDownJoined

Spec == Init /\ [][Next]_vars

---------------------------------------------------------------------------
(* The routing decision on its own: the inputs are drawn, shouldRouteTo is   *)
(* applied to them                                                           *)

Plists == UNION {[1..k -> Protocols] : k \in 0..MaxPlist}

DecisionInputs ==
    [stage : {"in"},
     meta : [id : {"b1", "b2"}, hopcount : 0..MaxHop, singleton : BOOLEAN,
             destination : EIDs],
     n : [eid : Neighbors, free : {MaxSlots}, known : SUBSET {"b1", "b2"}],
     pl : Plists,
     ev : Evaluations,
     ret : {NoRet}]

DecisionInit ==
    /\ taskqueue = <<>>
    /\ aborted = FALSE
    /\ wpc = "created"
    /\ cur = NoTask
    /\ list = <<>>
    /\ iter = 1
    /\ entry = NoEntry
    /\ plist = <<>>
    /\ cursor = 0
    /\ ret = NoRet
    /\ lock = "free"
    /\ lifePc = "idle"
    /\ prod = [p \in Producers |-> IdleProducer]
    /\ pushed = 0
    /\ started = <<>>
    /\ xfers = <<>>
    /\ fail = "none"
    /\ looked = NoLookup
    /\ accepted = {}
    /\ dec \in DecisionInputs

Evaluate ==
    /\ dec.stage = "in"
    /\ dec' = [dec EXCEPT !.stage = "out",
                          !.ret = shouldRouteTo(dec.meta, dec.n, dec.pl, dec.ev)]
    /\ UNCHANGED <<taskqueue, aborted, lock, lifePc, prod, pushed>>
    /\ UNCHANGED workerVars

DecisionNext == Evaluate

DecisionSpec == DecisionInit /\ [][DecisionNext]_vars

---------------------------------------------------------------------------
(* The worker under fair scheduling: the worker thread keeps running, a     *)
(* thread waiting for the neighbor database mutex gets it, a thread that     *)
(* holds it releases it, transferTo returns, join() returns once run() has  *)

FairSpec ==
    /\ Spec
    /\ WF_vars(Worker)
    /\ SF_vars(SearchEnter)
    /\ SF_vars(ProcessEnter)
    /\ WF_vars(OtherUnlock)
    /\ WF_vars(componentDownJoined)

---------------------------------------------------------------------------
(* Properties *)

InTransferLoop == wpc \in {"s_loop", "s_xfer", "x_throw"}
InTransfer == wpc \in {"s_xfer", "p_xfer"}
ThrowPositions == {"s_throw", "x_throw", "p_throw"}
Recognized ==
    {"NoMoreTransfersAvailable", "EntryNotFoundException",
     "NodeNotAvailableException", "NoBundleFoundException",
     "AlreadyInTransitException", "NoRouteKnownException", "bad_cast"}

\* C1: the worker does not hold the neighbor database lock while transferTo is
\* in progress, nor anywhere in the transfer loop of a search batch (from the
\* end of the selection to the end of the loop), in both kinds of task.
C1_NoLockInTransfer ==
    (InTransferLoop \/ InTransfer) => lock # "worker"

\* the second transfer of a search batch is in progress while another thread
\* holds the lock
C1_Witness ==
    wpc = "s_xfer" /\ Len(xfers) = 2 /\ lock = "other"

\* C2: tasks are started one at a time in the order of their ids (the order
\* of the pushes), each at most once: the ids of the started tasks increase
\* strictly, the task in work is the last one started, and no task that
\* waits in the queue has an id as small as a started one.
C2_FifoAtMostOnce ==
    /\ \A i, j \in DOMAIN started : i < j => started[i] < started[j]
    /\ \A i, j \in DOMAIN taskqueue : i < j => taskqueue[i].id < taskqueue[j].id
    /\ \A i \in DOMAIN taskqueue, j \in DOMAIN started : started[j] < taskqueue[i].id
    /\ cur # NoTask => (started # <<>> /\ cur.id = started[Len(started)])

\* the second task is in work after the first, both pushed before the first
\* was polled
C2_Witness ==
    /\ started = <<1, 2>>
    /\ cur # NoTask
    /\ wpc = "search"

DecisionRuleFails(d) ==
    \/ d.meta.hopcount = 0
    \/ ~d.meta.singleton
    \/ sameHost(d.meta.destination, Local)
    \/ ~sameHost(d.meta.destination, d.n.eid)
    \/ d.meta.id \in d.n.known

\* C3: shouldRouteTo returns (false, UNDEFINED), whatever the protocol list
\* and the evaluator's answers, when the hop count is 0, the destination is
\* no singleton, is on the local node, is not on the neighbor's node, or the
\* bundle is in the neighbor's known set.
C3_RulesReject ==
    (dec.stage = "out" /\ DecisionRuleFails(dec))
        => dec.ret = <<FALSE, CONN_UNDEFINED>>

\* a bundle the evaluator accepts and that only the known set excludes
C3_Witness ==
    /\ dec.stage = "out"
    /\ dec.meta.hopcount > 0
    /\ dec.meta.singleton
    /\ ~sameHost(dec.meta.destination, Local)
    /\ sameHost(dec.meta.destination, dec.n.eid)
    /\ dec.meta.id \in dec.n.known
    /\ dec.pl # <<>>
    /\ \A q \in Protocols : dec.ev[q] = "ACCEPT"
    /\ dec.ret = <<FALSE, CONN_UNDEFINED>>

AcceptedAt(d) == {i \in 1..Len(d.pl) : d.ev[d.pl[i]] = "ACCEPT"}

\* C4: for a bundle that passes the rules, shouldRouteTo returns (true, P) with
\* P the protocol at the first position of the list the evaluator accepts, and
\* (false, UNDEFINED) exactly when no position is accepted.
C4_FirstAcceptWins ==
    (dec.stage = "out" /\ ~DecisionRuleFails(dec))
        => IF AcceptedAt(dec) = {}
           THEN dec.ret = <<FALSE, CONN_UNDEFINED>>
           ELSE LET first == CHOOSE i \in AcceptedAt(dec) :
                                \A j \in AcceptedAt(dec) : i <= j
                IN  dec.ret = <<TRUE, dec.pl[first]>>

\* [A, B, C] with A rejected, B and C accepted: B is returned
C4_Witness ==
    /\ dec.stage = "out"
    /\ ~DecisionRuleFails(dec)
    /\ Len(dec.pl) = 3
    /\ dec.pl[2] # dec.pl[3]
    /\ dec.ev[dec.pl[1]] = "REJECT"
    /\ dec.ev[dec.pl[2]] = "ACCEPT"
    /\ dec.ev[dec.pl[3]] = "ACCEPT"
    /\ dec.ret = <<TRUE, dec.pl[2]>>

TransferOf(i) ==
    [eid |-> cur.eid, bundle |-> list[i][1], protocol |-> list[i][2]]
CallOf(x) == [eid |-> x.eid, bundle |-> x.bundle, protocol |-> x.protocol]

\* C5: an AlreadyInTransit failure of transferTo in the transfer loop is
\* followed by the next entry of the result: the loop goes on with the
\* iterator moved by one, and when a search task whose transfers all ended
\* well or with AlreadyInTransit leaves the loop, transferTo has been called
\* for every entry of the result, in the order of the result.
C5_SkipOnlyThatCandidate ==
    /\ [][(wpc = "x_throw" /\ fail = "AlreadyInTransitException" /\ wpc' # wpc)
            => (wpc' = "s_loop" /\ iter' = iter + 1 /\ list' = list /\ cur' = cur)]_vars
    /\ []((/\ wpc = "process"
           /\ cur.kind = "search"
           /\ \A i \in DOMAIN xfers :
                xfers[i].result \in {"ok", "AlreadyInTransitException"})
          => /\ Len(xfers) = Len(list)
             /\ \A i \in DOMAIN xfers : CallOf(xfers[i]) = TransferOf(i))

\* the first transfer of a batch of two failed with AlreadyInTransit and the
\* second was made
C5_Witness ==
    /\ wpc = "process"
    /\ cur.kind = "search"
    /\ Len(list) = 2
    /\ Len(xfers) = 2
    /\ xfers[1].result = "AlreadyInTransitException"
    /\ xfers[2].result = "ok"

\* C6: a failure of the taxonomy never ends the worker: thrown in the first
\* try block it is caught and the worker goes on in the same task's loop or
\* with the second try block; thrown in the second try block it is caught,
\* the task is deleted and the worker is at poll() again.
C6_RecognizedFailuresAbsorbed ==
    /\ [][(wpc \in ThrowPositions /\ fail \in Recognized /\ wpc' # wpc)
            => \/ wpc = "x_throw" /\ wpc' \in {"s_loop", "process"}
               \/ wpc = "s_throw" /\ wpc' = "process"
               \/ wpc = "p_throw" /\ wpc' = "poll" /\ cur' = NoTask]_vars
    /\ [][(wpc = "process" /\ cur.kind = "search" /\ wpc' # wpc)
            => (wpc' = "p_throw" /\ fail' = "bad_cast" /\ cur' = cur)]_vars

\* transferTo threw NodeNotAvailable in the transfer loop of a search task
C6_Witness ==
    /\ wpc = "x_throw"
    /\ fail = "NodeNotAvailableException"
    /\ cur.kind = "search"

\* C7: a failure outside the taxonomy, or poll() on an aborted queue, ends
\* the worker; once ended, it polls no task, handles none and calls no
\* transferTo, whatever is pushed, until componentUp resets the queue and
\* starts it again.
C7_FatalTerminates ==
    [][/\ (wpc \in ThrowPositions /\ fail \notin Recognized /\ wpc' # wpc)
            => wpc' = "finalized"
       /\ (wpc = "poll" /\ aborted /\ wpc' # wpc)
            => wpc' = "finalized"
       /\ wpc = "finalized"
            => /\ started' = started /\ xfers' = xfers /\ cur' = cur
               /\ cur = NoTask
               /\ \/ wpc' = "finalized"
                  \/ /\ wpc' = "poll"
                     /\ lifePc = "idle"
                     /\ taskqueue' = <<>>
                     /\ ~aborted']_vars

\* the worker has ended on a failure (the queue is not aborted) and tasks
\* wait in the queue
C7_Witness ==
    /\ wpc = "finalized"
    /\ ~aborted
    /\ taskqueue # <<>>
    /\ started # <<>>

\* C8: componentDown does not touch the worker: a transferTo in progress
\* stays in progress and the task in work stays in work; no task is polled
\* while the queue is aborted; and under fair scheduling the worker ends and
\* join() returns.
C8_CooperativeCancel ==
    /\ [][(~aborted /\ aborted') => UNCHANGED workerVars]_vars
    /\ [][aborted => (started' = started /\ (cur = NoTask => cur' = NoTask))]_vars
    /\ [][(aborted /\ cur # NoTask /\ cur' # cur)
            => (cur' = NoTask /\ wpc \in ThrowPositions \cup {"p_xfer"})]_vars
    /\ (lifePc = "joining") ~> (lifePc = "idle" /\ wpc = "finalized")

\* the queue was aborted while the first transfer of a batch of two was in
\* progress, and the second transfer is made
C8_Witness ==
    /\ aborted
    /\ lifePc = "joining"
    /\ wpc = "s_xfer"
    /\ Len(xfers) = 2

ExpectedFor(c) == {<<c.meta, c.peer, n>> : n \in c.nl \ {c.peer}}

\* C9: when the loop of eventBundleQueued(P, m) is through, it has pushed
\* exactly one ProcessBundleTask(m, P, n) for every neighbor n # P of the
\* set getNeighbors() returned and nothing else; while it runs it has pushed
\* nothing else either.
C9_OneTaskPerOtherNeighbor ==
    \A p \in Producers :
        prod[p].pc = "loop" =>
            LET c == prod[p]
                outSet == {c.out[i] : i \in DOMAIN c.out}
            IN  /\ outSet \subseteq ExpectedFor(c)
                /\ Cardinality(outSet) = Len(c.out)
                /\ c.todo = <<>> => outSet = ExpectedFor(c)

\* peer N1 with neighbors {N1, N2}: one task, for N2
C9_Witness ==
    \E p \in Producers :
        /\ prod[p].pc = "loop"
        /\ prod[p].todo = <<>>
        /\ prod[p].nl = {N1, N2}
        /\ prod[p].peer = N1
        /\ prod[p].out = <<<<prod[p].meta, N1, N2>>>>

ZeroSlotSearch ==
    cur.kind = "search" /\ looked # NoLookup /\ looked[1].free = 0

\* C10: a search task whose neighbor is read with no free slot is dropped at
\* the threshold check: no selection and no transferTo; the worker pushes
\* nothing onto the queue; and it goes on through the second try block's
\* bad_cast to the next poll().
C10_NoSlotNoTransfer ==
    /\ [](ZeroSlotSearch
            => /\ xfers = <<>>
               /\ list = <<>>
               /\ \/ wpc = "s_throw" /\ fail = "NoMoreTransfersAvailable"
                  \/ wpc = "process" /\ fail = "none"
                  \/ wpc = "p_throw" /\ fail = "bad_cast")
    /\ [][(ZeroSlotSearch /\ wpc' # wpc)
            => wpc' \in {"process", "p_throw", "poll"}]_vars
    /\ [][(ZeroSlotSearch /\ Len(taskqueue') > Len(taskqueue))
            => (pushed' = pushed + 1 /\ UNCHANGED workerVars)]_vars

\* the search task of a neighbor without a free slot has left the first try
\* block
C10_Witness ==
    /\ ZeroSlotSearch
    /\ wpc = "process"
    /\ taskqueue # <<>>

FreeAtDecision == looked[1].free

\* C11 as stated: transferTo is called, in either kind of task, only if the
\* entry read under the lock for that task had a free transfer slot.
C11_TransferOnlyWithFreeSlot ==
    xfers # <<>> => (looked # NoLookup /\ FreeAtDecision >= 1)

\* C11, amended: in a SearchNextBundleTask the selection runs and transferTo
\* is called only if the entry read under the lock had a free transfer slot.
\* (The ProcessBundleTask branch reads no slot count: see
\* C11_TransferOnlyWithFreeSlot.)
C11_SearchOnlyWithFreeSlot ==
    (cur.kind = "search" /\ (wpc = "s_query" \/ xfers # <<>>))
        => (looked # NoLookup /\ FreeAtDecision >= 1)

\* a search task transfers to a neighbor that had one free slot
C11_Witness ==
    /\ cur.kind = "search"
    /\ wpc = "s_xfer"
    /\ looked # NoLookup
    /\ FreeAtDecision = 1

\* C12: componentUp resets the queue before it starts the worker: the step
\* that starts the worker leaves the queue empty and not aborted, so the
\* worker polls again; a task is started only from the head of the queue, and
\* a task with an id handed out before never enters the queue again, so the
\* tasks the reset removed are never executed.
C12_ResetOnUp ==
    /\ [][(wpc \in {"created", "finalized"} /\ wpc' # wpc)
            => (wpc' = "poll" /\ taskqueue' = <<>> /\ ~aborted')]_vars
    /\ [][started' # started
            => /\ ~aborted
               /\ taskqueue # <<>>
               /\ started' = Append(started, Head(taskqueue).id)]_vars
    /\ [][\A i \in DOMAIN taskqueue' :
            taskqueue'[i].id <= pushed
                => \E j \in DOMAIN taskqueue : taskqueue[j] = taskqueue'[i]]_vars

\* task 1 was in the queue of a worker that was down, componentUp removed
\* it, and the restarted worker works on task 2, pushed after the reset
C12_Witness ==
    /\ started = <<2>>
    /\ cur # NoTask
    /\ cur.id = 2
    /\ ~aborted
    /\ wpc = "search"

\* C13: in one SearchNextBundleTask the selection returns at most as many
\* entries as the neighbor had free transfer slots when its entry was read
\* under the lock, and transferTo is called at most once per entry: the
\* number of transferTo calls is at most that number of free slots.
C13_TransfersWithinFreeSlots ==
    (cur.kind = "search" /\ looked # NoLookup)
        => /\ Len(list) <= FreeAtDecision
           /\ Len(xfers) <= Len(list)
           /\ Len(xfers) <= FreeAtDecision

\* one free slot, one transfer, and the batch is through
C13_Witness ==
    /\ cur.kind = "search"
    /\ looked # NoLookup
    /\ FreeAtDecision = 1
    /\ Len(xfers) = 1
    /\ wpc = "process"

ScenarioEntry == [eid |-> N1, free |-> 2, known |-> {}]
ScenarioPlist == <<"TCP", "UDP">>

\* C14: every transferTo of a SearchNextBundleTask is for the task's neighbor
\* and for a (bundle, protocol) pair that shouldRouteTo accepted in the
\* selection of this same task; after list.clear() the result holds only such
\* pairs, whatever an earlier task left in it. b2 (hop count 0) and b3 (no
\* singleton) are never transferred, and with protocols [TCP, UDP] and an
\* evaluator that accepts TCP the decision for b1 is (true, TCP).
C14_OnlyFreshlyAccepted ==
    /\ (cur.kind = "search" /\ wpc # "search")
         => /\ \A i \in DOMAIN list : list[i] \in accepted
            /\ \A i \in DOMAIN xfers :
                 /\ xfers[i].eid = cur.eid
                 /\ <<xfers[i].bundle, xfers[i].protocol>> \in accepted
                 /\ xfers[i].bundle \notin {"b2", "b3"}
    /\ \A ev \in Evaluations :
         ev["TCP"] = "ACCEPT"
            => /\ shouldRouteTo(Meta("b1"), ScenarioEntry, ScenarioPlist, ev) = <<TRUE, "TCP">>
               /\ ~shouldRouteTo(Meta("b2"), ScenarioEntry, ScenarioPlist, ev)[1]
               /\ ~shouldRouteTo(Meta("b3"), ScenarioEntry, ScenarioPlist, ev)[1]

\* the second search task in a row, for N1 with two free slots, has
\* transferred b1 over TCP and nothing else
C14_Witness ==
    /\ cur.kind = "search"
    /\ cur.eid = N1
    /\ started = <<1, 2>>
    /\ looked # NoLookup
    /\ FreeAtDecision = 2
    /\ wpc = "process"
    /\ list = <<<<"b1", "TCP">>>>
    /\ Len(xfers) = 1
    /\ CallOf(xfers[1]) = [eid |-> N1, bundle |-> "b1", protocol |-> "TCP"]
    /\ xfers[1].result = "ok"

Decided == looked # NoLookup /\ looked[1].found

\* C15: a ProcessBundleTask takes its routing decision once, with the lock
\* held, on the entry of nexthop. Rejected: NoRouteKnownException, no
\* transferTo, and the worker goes on to poll(). Accepted with protocol P:
\* one call transferTo(nexthop, bundle, P), made after the lock is released,
\* and none to the origin or any other neighbor.
C15_OneDecisionOneTransfer ==
    /\ [](cur.kind = "process"
            => /\ Len(xfers) <= 1
               /\ cur.nexthop # cur.origin
               /\ wpc \in {"p_locked", "p_decided"} => lock = "worker"
               /\ (Decided /\ ~ret[1])
                    => (xfers = <<>> /\ wpc = "p_throw"
                        /\ fail = "NoRouteKnownException")
               /\ xfers # <<>>
                    => /\ Decided
                       /\ ret[1]
                       /\ CallOf(xfers[1]) = [eid |-> cur.nexthop,
                                              bundle |-> cur.bundle,
                                              protocol |-> ret[2]]
                       /\ xfers[1].eid # cur.origin
                       /\ lock # "worker")
    /\ [][(cur.kind = "process" /\ cur' = cur /\ looked' # looked)
            => (wpc = "p_locked" /\ lock = "worker" /\ looked = NoLookup
                /\ looked'[1].found /\ wpc' \in {"p_decided", "p_throw"})]_vars
    /\ [][(wpc = "p_decided" /\ wpc' # wpc)
            => (wpc' = "p_xfer" /\ Len(xfers') = 1 /\ lock' = "free")]_vars
    /\ [][(wpc = "p_throw" /\ fail = "NoRouteKnownException" /\ wpc' # wpc)
            => (wpc' = "poll" /\ cur' = NoTask)]_vars

\* the decision of a ProcessBundleTask with origin Local and nexthop N1 was
\* (true, UDP) and the one transfer, to N1, is in progress
C15_Witness ==
    /\ cur.kind = "process"
    /\ cur.origin = Local
    /\ cur.nexthop = N1
    /\ wpc = "p_xfer"
    /\ ret = <<TRUE, "UDP">>
    /\ Len(xfers) = 1
    /\ xfers[1].eid = N1
    /\ lock = "other"

MissingEntry == looked # NoLookup /\ ~looked[1].existed
LookupFailed == looked # NoLookup /\ ~looked[1].found

BatchEnding ==
    {"NodeNotAvailableException", "NoMoreTransfersAvailable",
     "EntryNotFoundException"}

\* C17: in the transfer loop of a SearchNextBundleTask a failure of transferTo
\* with NodeNotAvailable, NoMoreTransfersAvailable or EntryNotFound leaves
\* the loop: it is caught by the chain of the first try block, the failed
\* call stays the last transferTo of the task, and the worker goes through
\* the second try block's bad_cast to the next poll().
C17_OtherFailureEndsBatch ==
    /\ []((cur.kind = "search"
           /\ \E i \in DOMAIN xfers : xfers[i].result \in BatchEnding)
          => /\ xfers[Len(xfers)].result \in BatchEnding
             /\ \A i \in 1..(Len(xfers) - 1) : xfers[i].result \notin BatchEnding
             /\ wpc \in {"x_throw", "process", "p_throw"})
    /\ [][(wpc = "x_throw" /\ fail \in BatchEnding /\ wpc' # wpc)
            => (wpc' = "process" /\ xfers' = xfers /\ cur' = cur)]_vars
    /\ [][(cur.kind = "search" /\ wpc \in {"process", "p_throw"} /\ wpc' # wpc)
            => \/ wpc = "process" /\ wpc' = "p_throw" /\ xfers' = xfers
               \/ wpc = "p_throw" /\ wpc' = "poll" /\ cur' = NoTask]_vars

\* the first transfer of a batch of two failed with NodeNotAvailable: the
\* second entry was not tried
C17_Witness ==
    /\ cur.kind = "search"
    /\ Len(list) = 2
    /\ Len(xfers) = 1
    /\ xfers[1].result = "NodeNotAvailableException"
    /\ wpc = "p_throw"

CriticalSection == {"s_locked", "s_query", "p_locked", "p_decided"}

\* C18: the worker holds the database lock inside its two critical sections
\* only: at poll(), in transferTo, in every catch clause (after the threshold
\* check, the lookup, the selection or the routing decision threw) and after
\* run() has returned, the lock is not the worker's, and a thread that wants
\* the lock can have it then.
C18_LockReleasedOnEveryExit ==
    /\ [](lock = "worker" <=> wpc \in CriticalSection)
    /\ []((wpc \in ThrowPositions \cup {"poll", "finalized", "s_xfer", "p_xfer"})
            => lock \in {"free", "other"})
    /\ [][(lock = "worker" /\ lock' # lock) => lock' = "free"]_vars

\* the selection threw a failure no catch chain names, and another thread
\* holds the lock while the exception is on its way to the outer catch
C18_Witness ==
    /\ wpc = "s_throw"
    /\ fail = "BundleSelectorException"
    /\ lock = "other"

---------------------------------------------------------------------------
(* shouldRouteTo called again and again on one bundle and one neighbor *)

\* calls made in a row
MaxCalls == 3

\* a shouldRouteTo that records the bundle in the entry it was given
entryAfterCallAdds(n, meta) == [n EXCEPT !.known = @ \cup {meta.id}]

\* the entry after shouldRouteTo(meta, n, plist): n is a const reference and
\* the function is const; it reads n.eid and n.has(meta) and writes nothing
entryAfterCall(n, meta) == n

RepeatInputs ==
    [stage : {"rep"},
     meta : {Meta(b) : b \in BundleIds},
     n : [eid : Neighbors, free : 0..MaxSlots, known : SUBSET {"b1", "b4"}],
     pl : SupportedProtocols,
     calls : {0},
     seen : {{}}]

RepeatInit ==
    /\ pushed \in {0, 1}
    /\ taskqueue = IF pushed = 1 THEN <<SearchNextBundleTask(1, N1)>> ELSE <<>>
    /\ aborted = FALSE
    /\ wpc = "created"
    /\ cur = NoTask
    /\ list = <<>>
    /\ iter = 1
    /\ entry = NoEntry
    /\ plist = <<>>
    /\ cursor = 0
    /\ ret = NoRet
    /\ lock = "free"
    /\ lifePc = "idle"
    /\ prod = [p \in Producers |-> IdleProducer]
    /\ started = <<>>
    /\ xfers = <<>>
    /\ fail = "none"
    /\ looked = NoLookup
    /\ accepted = {}
    /\ dec \in RepeatInputs

\* one call; ev: the evaluator's answers during this call
Call ==
    /\ dec.stage = "rep"
    /\ dec.calls < MaxCalls
    /\ \E ev \in Evaluations :
         dec' = [dec EXCEPT
                   !.calls = @ + 1,
                   !.n = entryAfterCall(dec.n, dec.meta),
                   !.seen = @ \cup {<<ev, shouldRouteTo(dec.meta, dec.n, dec.pl, ev)>>}]
    /\ UNCHANGED <<taskqueue, aborted, lock, lifePc, prod, pushed>>
    /\ UNCHANGED workerVars

RepeatNext == Call

RepeatSpec == RepeatInit /\ [][RepeatNext]_vars

---------------------------------------------------------------------------
(* Liveness of the queue *)

Running == wpc \notin {"created", "finalized"}
Queued(i) == \E k \in DOMAIN taskqueue : taskqueue[k].id = i
Started(i) == \E k \in DOMAIN started : started[k] = i
Stopped == aborted \/ wpc = "finalized"

\* C20: under fair scheduling every task that is in the queue of a running
\* worker is polled, and the task in work is worked off and the worker is at
\* poll() again, unless the queue is aborted or an unrecognized failure ends
\* the worker. A push waits for nothing: eventDataChanged and the loop of
\* eventBundleQueued can take their step wherever the worker is and whoever
\* holds the database lock.
C20_QueueLiveness ==
    /\ \A i \in 1..MaxTasks :
         (Queued(i) /\ Running) ~> (Started(i) \/ Stopped)
    /\ \A i \in 1..MaxTasks :
         (cur # NoTask /\ cur.id = i) ~> (wpc = "poll" \/ Stopped)
    /\ [](pushed + Pending < MaxTasks => ENABLED eventDataChanged)
    /\ [](\A p \in Producers :
            (prod[p].pc = "loop" /\ prod[p].todo # <<>>)
                => ENABLED eventBundleQueuedStep(p))

\* task 2 was pushed and waits while the worker, in task 1, holds the
\* database lock
C20_Witness ==
    /\ ~aborted
    /\ started = <<1>>
    /\ cur # NoTask
    /\ wpc \in CriticalSection
    /\ lock = "worker"
    /\ Len(taskqueue) = 1
    /\ taskqueue[1].id = 2

===========================================================================
